---- MODULE Spec2Model ----
(***************************************************************************)
(* Model of backend/core/services/_raffle_results_service.py:              *)
(* RaffleResultsService, the round-by-round ranking of a raffle.           *)
(*                                                                         *)
(* The store holds the Raffle rows (finalized, one_address_one_vote),      *)
(* their Participant rows and ResultsTable rows, and the tables of         *)
(* ResultsTableEntry and BlockData rows, each row with its foreign key.    *)
(* The oracle (w3.eth.getBlock) is a chain of blocks, block n having       *)
(* gasLimit chain[n].  Each caller runs generate_next_result_step for its  *)
(* raffle one store/oracle access at a time.                               *)
(***************************************************************************)
EXTENDS Integers, Sequences, FiniteSets, TLC

\* ---------------------------------------------------------------- bounds
MaxParticipants == 3
MaxChain == 3
NumCallers == 2

Callers == 1..NumCallers

\* the Raffle rows of the store
Raffles == {1, 2}

\* ------------------------------------------------------------ input sets
\* Participant rows a raffle can be created with (pk, address, poap_id);
\* poap_id is globally unique.
Universe ==
    { [pk |-> 1, address |-> "A", poap_id |-> 5],
      [pk |-> 2, address |-> "A", poap_id |-> 2],
      [pk |-> 3, address |-> "B", poap_id |-> 9],
      [pk |-> 4, address |-> "B", poap_id |-> 10],
      [pk |-> 5, address |-> "C", poap_id |-> 11],
      [pk |-> 6, address |-> "C", poap_id |-> 21] }

\* gasLimit values the oracle can report for a block
GasLimits == {10, 11, 12}

\* collation of the address column
AddressRank(a) == CASE a = "A" -> 1 [] a = "B" -> 2 [] OTHER -> 3

\* ------------------------------------------------------- query helpers
\* order_by("address", "poap_id")
ByAddressPoapId(x, y) ==
    \/ AddressRank(x.address) < AddressRank(y.address)
    \/ /\ x.address = y.address
       /\ \/ x.poap_id < y.poap_id
          \/ x.poap_id = y.poap_id /\ x.pk < y.pk

\* key=lambda p: p.poap_id (rows of equal key keep their pk order)
ByPoapId(x, y) ==
    \/ x.poap_id < y.poap_id
    \/ x.poap_id = y.poap_id /\ x.pk < y.pk

\* participants.order_by("address", "poap_id") as a list: the row with i-1
\* rows before it is at position i
OrderByAddressPoapId(S) ==
    [i \in 1..Cardinality(S) |->
        CHOOSE x \in S : Cardinality({ y \in S : ByAddressPoapId(y, x) }) = i - 1]

\* sorted(participants.all(), key=lambda p: p.poap_id)
SortedByPoapId(S) ==
    [i \in 1..Cardinality(S) |->
        CHOOSE x \in S : Cardinality({ y \in S : ByPoapId(y, x) }) = i - 1]

\* the elements of a list at the positions of `keep`, in list order
AtPositions(rows, keep) ==
    [k \in 1..Cardinality(keep) |->
        rows[CHOOSE i \in keep : Cardinality({ j \in keep : j < i }) = k - 1]]

\* DistinctAddress that keeps the last row of each address
DistinctAddressKeepsLast(rows) ==
    AtPositions(rows, { i \in 1..Len(rows) :
                          \A j \in (i + 1)..Len(rows) : rows[j].address # rows[i].address })

\* QuerySet.distinct("address"): the first row of each address of an
\* ordered list
DistinctAddress(rows) ==
    AtPositions(rows, { i \in 1..Len(rows) :
                          \A j \in 1..(i - 1) : rows[j].address # rows[i].address })

Range(s) == { s[i] : i \in 1..Len(s) }

\* NotFixed without the `not in fixed_participants` test
NotFixedKeepsAll(participants, fixed_participants) == participants

\* the loop of lines 65-68: the participants, in order, that are not in
\* fixed_participants (model instances compare by pk)
NotFixed(participants, fixed_participants) ==
    LET Remaining(participant) == participant.pk \notin fixed_participants
    IN  SelectSeq(participants, Remaining)

\* _get_remaining_participants: the participants of the raffle (one per
\* address when one_address_one_vote) sorted by poap_id, without those
\* that already have an entry
\* (the early return of line 45 gives the same empty list as the loop)
GetRemainingParticipants(raffleParticipants, oneAddressOneVote, tableEntries) ==
    LET candidates ==
            IF oneAddressOneVote
            THEN Range(DistinctAddress(OrderByAddressPoapId(raffleParticipants)))
            ELSE raffleParticipants
        fixed_participants == { e.participant : e \in tableEntries }
    IN  NotFixed(SortedByPoapId(candidates), fixed_participants)

\* ------------------------------------------------- _split_by_gas_limit
\* poap_id_cmp_digit = math.floor(poap_id/order) % 10
CmpDigit(poap_id, order) == (poap_id \div order) % 10

\* One pass of the for loop at significance `order` over participants[1..n]:
\* the matches, the last digit seen (-1 for None) and
\* comparing_digits_identical.  `prev_iteration_digit and ...` is false
\* when the previous digit is None or 0.
RECURSIVE ScanDigits(_, _, _, _)
ScanDigits(gas_limit, participants, order, n) ==
    IF n = 0
    THEN [eliminated |-> <<>>, prev |-> -1, identical |-> TRUE]
    ELSE LET before == ScanDigits(gas_limit, participants, order, n - 1)
             participant == participants[n]
             digit == CmpDigit(participant.poap_id, order)
         IN  [eliminated |-> IF digit = gas_limit % 10
                             THEN Append(before.eliminated, participant)
                             ELSE before.eliminated,
              identical  |-> IF before.prev > 0 /\ before.prev # digit
                             THEN FALSE
                             ELSE before.identical,
              prev       |-> digit]

MaxPoapId(participants) ==
    CHOOSE m \in { participants[i].poap_id : i \in 1..Len(participants) } :
        \A i \in 1..Len(participants) : participants[i].poap_id <= m

\* The while loop from significance `order` on.  Once order exceeds every
\* poap_id all digits are 0 at this and every later significance, so a
\* pass that is still "identical" there is followed only by identical
\* passes: the loop never returns (returns = FALSE).
RECURSIVE SplitLoop(_, _, _)
SplitLoop(gas_limit, participants, order) ==
    LET pass == ScanDigits(gas_limit, participants, order, Len(participants))
    IN  IF ~pass.identical
        THEN [returns |-> TRUE, value |-> pass.eliminated]
        ELSE IF order > MaxPoapId(participants)
             THEN [returns |-> FALSE, value |-> <<>>]
             ELSE SplitLoop(gas_limit, participants, order * 10)

SplitByGasLimit(gas_limit, participants) ==
    IF Len(participants) = 1
    THEN [returns |-> TRUE, value |-> participants]
    ELSE SplitLoop(gas_limit, participants, 1)

\* ------------------------------------------------------------- state
VARIABLES
    participants,           \* per raffle: its Participant rows
    one_address_one_vote,   \* per raffle: Raffle.one_address_one_vote
    finalized,              \* per raffle: Raffle.finalized
    results_table,          \* per raffle: TRUE when its ResultsTable row exists
    entries,                \* ResultsTableEntry rows, in insertion order
    blocks,                 \* BlockData rows, in insertion order
    chain,                  \* the oracle: chain[n] is gasLimit of block n
    raffle,                 \* per caller: the raffle its calls are made for
    pc,                     \* per caller: position in generate_next_result_step
    prev_block,             \* per caller: <<>> (None) or <<row>>
    block_data,             \* per caller: <<>> (None) or <<candidate>>
    remaining_participants, \* per caller: the pool
    eliminated_participants,\* per caller: result of _split_by_gas_limit
    result                  \* per caller: what the finished call returns or raises

store == <<participants, one_address_one_vote, finalized, results_table,
           entries, blocks>>
locals == <<prev_block, block_data, remaining_participants,
            eliminated_participants>>
vars == <<participants, one_address_one_vote, finalized, results_table,
          entries, blocks, chain, raffle, pc, prev_block, block_data,
          remaining_participants, eliminated_participants, result>>

\* no call is running
NoCalls ==
    /\ pc = [p \in Callers |-> "idle"]
    /\ prev_block = [p \in Callers |-> <<>>]
    /\ block_data = [p \in Callers |-> <<>>]
    /\ remaining_participants = [p \in Callers |-> <<>>]
    /\ eliminated_participants = [p \in Callers |-> <<>>]
    /\ result = [p \in Callers |-> "none"]

\* One raffle with its participants, not yet drawn; every caller calls
\* for it.
Init ==
    /\ raffle = [p \in Callers |-> 1]
    /\ participants \in { [r \in Raffles |-> IF r = 1 THEN S ELSE {}] :
                            S \in { T \in SUBSET Universe :
                                      Cardinality(T) <= MaxParticipants } }
    /\ one_address_one_vote \in { [r \in Raffles |-> r = 1 /\ b] : b \in BOOLEAN }
    /\ finalized = [r \in Raffles |-> FALSE]
    /\ results_table = [r \in Raffles |-> FALSE]
    /\ entries = <<>>
    /\ blocks = <<>>
    /\ chain \in { <<g>> : g \in GasLimits }
    /\ NoCalls

\* ------------------------------------------------------------- oracle
\* a new block is mined
NewBlock ==
    /\ Len(chain) < MaxChain
    /\ \E g \in GasLimits : chain' = Append(chain, g)
    /\ UNCHANGED <<store, raffle, pc, locals, result>>

\* w3.eth.getBlock(number): <<>> stands for BlockNotFound
GetBlock(number) ==
    IF number \in 1..Len(chain)
    THEN <<[number |-> number, gasLimit |-> chain[number]]>>
    ELSE <<>>

\* GetBlockData that asks again for the block of the previous round
GetBlockDataSameBlock(r, prev) ==
    LET raw_block_data == IF prev # <<>>
                          THEN GetBlock(prev[1].block_number)
                          ELSE GetBlock(Len(chain))
    IN  IF raw_block_data = <<>>
        THEN <<>>
        ELSE <<[raffle       |-> r,
                gas_limit    |-> raw_block_data[1].gasLimit,
                block_number |-> raw_block_data[1].number,
                order        |-> IF prev # <<>> THEN prev[1].order + 1 ELSE 0]>>

\* _get_block_data: None (<<>>) when the block is not found, else the
\* unsaved BlockData candidate of raffle r
GetBlockData(r, prev) ==
    LET raw_block_data == IF prev # <<>>
                          THEN GetBlock(prev[1].block_number + 1)
                          ELSE GetBlock(Len(chain))
    IN  IF raw_block_data = <<>>
        THEN <<>>
        ELSE <<[raffle       |-> r,
                gas_limit    |-> raw_block_data[1].gasLimit,
                block_number |-> raw_block_data[1].number,
                order        |-> IF prev # <<>> THEN prev[1].order + 1 ELSE 0]>>

\* LastBlocks without filter(raffle=raffle)
LastBlocksOfAnyRaffle(r) ==
    { <<blocks[j]>> : j \in { j \in 1..Len(blocks) :
         \A k \in 1..Len(blocks) : blocks[k].order <= blocks[j].order } }

\* BlockData.objects.filter(raffle=raffle).order_by("-order").first():
\* the rows of the raffle of greatest order (one of them is returned),
\* none when the raffle has no row
LastBlocks(r) ==
    { <<blocks[j]>> : j \in { j \in 1..Len(blocks) :
         /\ blocks[j].raffle = r
         /\ \A k \in 1..Len(blocks) :
              blocks[k].raffle = r => blocks[k].order <= blocks[j].order } }

\* raffle.results_table.entries: the entries of the raffle's table
TableEntries(r) ==
    { entries[i] : i \in { j \in 1..Len(entries) : entries[j].results_table = r } }

\* NewEntries without `order += 1`
RECURSIVE NewEntriesSameOrder(_, _, _)
NewEntriesSameOrder(table, eliminated, order) ==
    IF eliminated = <<>> THEN <<>>
    ELSE <<[results_table |-> table, participant |-> Head(eliminated).pk,
            order |-> order]>>
         \o NewEntriesSameOrder(table, Tail(eliminated), order)

\* the entries list built at lines 140-148 for the results table `table`
RECURSIVE NewEntries(_, _, _)
NewEntries(table, eliminated, order) ==
    IF eliminated = <<>> THEN <<>>
    ELSE <<[results_table |-> table, participant |-> Head(eliminated).pk,
            order |-> order]>>
         \o NewEntries(table, Tail(eliminated), order + 1)

\* AtomicCommit without the transaction: a failure after bulk_create
\* leaves the entries behind
AtomicCommitPartial(tables, new_entries, candidate, committed) ==
    IF committed
    THEN [entries |-> tables.entries \o new_entries,
          blocks  |-> Append(tables.blocks, candidate)]
    ELSE [entries |-> tables.entries \o new_entries,
          blocks  |-> tables.blocks]

\* AtomicCommit on tables with a unique (raffle, order) BlockData row and
\* one entry per participant: a round that is already there is refused
AtomicCommitOnce(tables, new_entries, candidate, committed) ==
    IF /\ committed
       /\ \A i \in 1..Len(tables.blocks) :
            \/ tables.blocks[i].raffle # candidate.raffle
            \/ tables.blocks[i].order # candidate.order
    THEN [entries |-> tables.entries \o new_entries,
          blocks  |-> Append(tables.blocks, candidate)]
    ELSE tables

\* with transaction.atomic(): bulk_create(entries); block_data.save()
\* committed = FALSE: the transaction fails and is rolled back
AtomicCommit(tables, new_entries, candidate, committed) ==
    IF committed
    THEN [entries |-> tables.entries \o new_entries,
          blocks  |-> Append(tables.blocks, candidate)]
    ELSE tables

\* ------------------------------------------- generate_next_result_step
\* Start without the `if raffle.finalized` test
StartWithoutCheck(p) ==
    /\ pc[p] = "idle"
    /\ pc' = [pc EXCEPT ![p] = "prev_block"]
    /\ UNCHANGED <<store, chain, raffle, locals, result>>

\* line 207: a finalized raffle returns True at once
Start(p) ==
    /\ pc[p] = "idle"
    /\ IF finalized[raffle[p]]
       THEN /\ pc' = [pc EXCEPT ![p] = "done"]
            /\ result' = [result EXCEPT ![p] = "true"]
       ELSE /\ pc' = [pc EXCEPT ![p] = "prev_block"]
            /\ UNCHANGED result
    /\ UNCHANGED <<store, chain, raffle, locals>>

\* callers serialize their calls per raffle
SerializedStart(p) ==
    /\ \A q \in Callers : raffle[q] = raffle[p] => pc[q] = "idle"
    /\ Start(p)

\* line 211
FetchPrevBlock(p) ==
    /\ pc[p] = "prev_block"
    /\ IF LastBlocks(raffle[p]) = {}
       THEN prev_block' = [prev_block EXCEPT ![p] = <<>>]
       ELSE \E row \in LastBlocks(raffle[p]) :
                prev_block' = [prev_block EXCEPT ![p] = row]
    /\ pc' = [pc EXCEPT ![p] = "get_block_data"]
    /\ UNCHANGED <<store, chain, raffle, block_data, remaining_participants,
                   eliminated_participants, result>>

\* line 212
FetchBlockData(p) ==
    /\ pc[p] = "get_block_data"
    /\ block_data' = [block_data EXCEPT ![p] =
                         GetBlockData(raffle[p], prev_block[p])]
    /\ pc' = [pc EXCEPT ![p] = "get_or_create"]
    /\ UNCHANGED <<store, chain, raffle, prev_block, remaining_participants,
                   eliminated_participants, result>>

\* line 214
GetOrCreateResultsTable(p) ==
    /\ pc[p] = "get_or_create"
    /\ results_table' = [results_table EXCEPT ![raffle[p]] = TRUE]
    /\ pc' = [pc EXCEPT ![p] = "remaining"]
    /\ UNCHANGED <<participants, one_address_one_vote, finalized, entries,
                   blocks, chain, raffle, locals, result>>

\* line 216
FetchRemainingParticipants(p) ==
    /\ pc[p] = "remaining"
    /\ remaining_participants' =
         [remaining_participants EXCEPT ![p] =
            GetRemainingParticipants(participants[raffle[p]],
                                     one_address_one_vote[raffle[p]],
                                     TableEntries(raffle[p]))]
    /\ pc' = [pc EXCEPT ![p] = "save"]
    /\ UNCHANGED <<store, chain, raffle, prev_block, block_data,
                   eliminated_participants, result>>

\* SaveEmptyPool without lines 131-134: the empty pool goes on to the
\* split and the call fails
SaveEmptyPoolRaises(p) ==
    /\ pc[p] = "save"
    /\ remaining_participants[p] = <<>>
    /\ pc' = [pc EXCEPT ![p] = "done"]
    /\ result' = [result EXCEPT ![p] = "TypeError"]
    /\ UNCHANGED <<store, chain, raffle, locals>>

\* _save_new_results_table_entries, lines 131-134: empty pool
SaveEmptyPool(p) ==
    /\ pc[p] = "save"
    /\ remaining_participants[p] = <<>>
    /\ finalized' = [finalized EXCEPT ![raffle[p]] = TRUE]
    /\ pc' = [pc EXCEPT ![p] = "done"]
    /\ result' = [result EXCEPT ![p] = "true"]
    /\ UNCHANGED <<participants, one_address_one_vote, results_table, entries,
                   blocks, chain, raffle, locals>>

\* line 136 with block_data = None: block_data.gas_limit raises
SaveWithoutBlock(p) ==
    /\ pc[p] = "save"
    /\ remaining_participants[p] # <<>>
    /\ block_data[p] = <<>>
    /\ pc' = [pc EXCEPT ![p] = "done"]
    /\ result' = [result EXCEPT ![p] = "AttributeError"]
    /\ UNCHANGED <<store, chain, raffle, locals>>

\* line 136: the split; a loop that never returns leaves the call in
\* "looping" for ever
Split(p) ==
    /\ pc[p] = "save"
    /\ remaining_participants[p] # <<>>
    /\ block_data[p] # <<>>
    /\ LET split == SplitByGasLimit(block_data[p][1].gas_limit,
                                    remaining_participants[p])
       IN  IF split.returns
           THEN /\ eliminated_participants' =
                     [eliminated_participants EXCEPT ![p] = split.value]
                /\ pc' = [pc EXCEPT ![p] = "commit"]
           ELSE /\ pc' = [pc EXCEPT ![p] = "looping"]
                /\ UNCHANGED eliminated_participants
    /\ UNCHANGED <<store, chain, raffle, prev_block, block_data,
                   remaining_participants, result>>

\* StartingOrder that counts the eliminated instead of the survivors
StartingOrderCountsEliminated(pool, eliminated) == Len(eliminated)

\* StartingOrder that is one too high
StartingOrderOffByOne(pool, eliminated) == Len(pool) - Len(eliminated) + 1

\* line 139: order = len(participants) - len(eliminated_participants)
StartingOrder(pool, eliminated) == Len(pool) - Len(eliminated)

\* lines 139-155: the entries and the BlockData row in one transaction,
\* which commits or fails as a whole; the entries go to the results
\* table that get_or_create returned for the raffle
Commit(p) ==
    /\ pc[p] = "commit"
    /\ \E committed \in BOOLEAN :
         LET order == StartingOrder(remaining_participants[p],
                                    eliminated_participants[p])
             after == AtomicCommit([entries |-> entries, blocks |-> blocks],
                                   NewEntries(raffle[p],
                                              eliminated_participants[p], order),
                                   block_data[p][1], committed)
         IN  /\ entries' = after.entries
             /\ blocks' = after.blocks
             /\ IF committed
                THEN /\ pc' = [pc EXCEPT ![p] = "finalize"]
                     /\ UNCHANGED result
                ELSE /\ pc' = [pc EXCEPT ![p] = "done"]
                     /\ result' = [result EXCEPT ![p] = "DatabaseError"]
    /\ UNCHANGED <<participants, one_address_one_vote, finalized,
                   results_table, chain, raffle, locals>>

\* MarkFinalized that finalizes after every committed round
MarkFinalizedAlways(p) ==
    /\ pc[p] = "finalize"
    /\ finalized' = [finalized EXCEPT ![raffle[p]] = TRUE]
    /\ result' = [result EXCEPT ![p] = "true"]
    /\ pc' = [pc EXCEPT ![p] = "done"]
    /\ UNCHANGED <<participants, one_address_one_vote, results_table, entries,
                   blocks, chain, raffle, locals>>

\* lines 157-161: results_table.raffle.finalized = True
MarkFinalized(p) ==
    /\ pc[p] = "finalize"
    /\ IF Len(remaining_participants[p]) = Len(eliminated_participants[p])
       THEN /\ finalized' = [finalized EXCEPT ![raffle[p]] = TRUE]
            /\ result' = [result EXCEPT ![p] = "true"]
       ELSE /\ UNCHANGED finalized
            /\ result' = [result EXCEPT ![p] = "false"]
    /\ pc' = [pc EXCEPT ![p] = "done"]
    /\ UNCHANGED <<participants, one_address_one_vote, results_table, entries,
                   blocks, chain, raffle, locals>>

ResetLocals(p) ==
    /\ prev_block' = [prev_block EXCEPT ![p] = <<>>]
    /\ block_data' = [block_data EXCEPT ![p] = <<>>]
    /\ remaining_participants' = [remaining_participants EXCEPT ![p] = <<>>]
    /\ eliminated_participants' = [eliminated_participants EXCEPT ![p] = <<>>]

\* the call returns (or raises) to its caller
Return(p) ==
    /\ pc[p] = "done"
    /\ pc' = [pc EXCEPT ![p] = "idle"]
    /\ result' = [result EXCEPT ![p] = "none"]
    /\ ResetLocals(p)
    /\ UNCHANGED <<store, chain, raffle>>

\* the call is interrupted (its process dies) between two steps
Abort(p) ==
    /\ pc[p] \notin {"idle", "done"}
    /\ pc' = [pc EXCEPT ![p] = "idle"]
    /\ ResetLocals(p)
    /\ UNCHANGED <<store, chain, raffle, result>>

Step(p) ==
    \/ FetchPrevBlock(p)
    \/ FetchBlockData(p)
    \/ GetOrCreateResultsTable(p)
    \/ FetchRemainingParticipants(p)
    \/ SaveEmptyPool(p)
    \/ SaveWithoutBlock(p)
    \/ Split(p)
    \/ Commit(p)
    \/ MarkFinalized(p)
    \/ Return(p)
    \/ Abort(p)

Next ==
    \/ NewBlock
    \/ \E p \in Callers : SerializedStart(p)
    \/ \E p \in Callers : Step(p)

Spec == Init /\ [][Next]_vars

\* Runs in which no call is interrupted and every commit succeeds: the
\* scheduler keeps calling, each call runs to its end and the chain keeps
\* growing.
CommitSucceeds(p) == Commit(p) /\ pc'[p] = "finalize"

Advance(p) ==
    \/ SerializedStart(p)
    \/ FetchPrevBlock(p)
    \/ FetchBlockData(p)
    \/ GetOrCreateResultsTable(p)
    \/ FetchRemainingParticipants(p)
    \/ SaveEmptyPool(p)
    \/ SaveWithoutBlock(p)
    \/ Split(p)
    \/ CommitSucceeds(p)
    \/ MarkFinalized(p)
    \/ Return(p)

FairNext ==
    \/ NewBlock
    \/ \E p \in Callers : Advance(p)

FairSpec ==
    /\ Init
    /\ [][FairNext]_vars
    /\ WF_vars(NewBlock)
    /\ WF_vars(\E p \in Callers : SerializedStart(p))
    /\ \A p \in Callers :
         /\ WF_vars(FetchPrevBlock(p))
         /\ WF_vars(FetchBlockData(p))
         /\ WF_vars(GetOrCreateResultsTable(p))
         /\ WF_vars(FetchRemainingParticipants(p))
         /\ WF_vars(SaveEmptyPool(p))
         /\ WF_vars(SaveWithoutBlock(p))
         /\ WF_vars(Split(p))
         /\ WF_vars(CommitSucceeds(p))
         /\ WF_vars(MarkFinalized(p))
         /\ WF_vars(Return(p))

\* ------------------------------------------ calls nothing serializes
\* Calls for one raffle that start whenever their caller is idle: each
\* caller makes one call, no call is interrupted and every commit succeeds.
ConcStep(p) ==
    \/ Start(p)
    \/ FetchPrevBlock(p)
    \/ FetchBlockData(p)
    \/ GetOrCreateResultsTable(p)
    \/ FetchRemainingParticipants(p)
    \/ SaveEmptyPool(p)
    \/ SaveWithoutBlock(p)
    \/ Split(p)
    \/ CommitSucceeds(p)
    \/ MarkFinalized(p)

ConcNext == \E p \in Callers : ConcStep(p)

ConcSpec == Init /\ [][ConcNext]_vars

\* ------------------------------------------ calls for different raffles
\* the Participant rows of raffle r, when it has any: a row belongs to
\* one raffle
UniverseOf(r) == { x \in Universe : AddressRank(x.address) = 2 * r - 1 }

\* Two raffles, not yet drawn, of which the callers take turns; calls are
\* serialized per raffle only.
MultiInit ==
    /\ raffle = [p \in Callers |-> IF p % 2 = 1 THEN 1 ELSE 2]
    /\ participants \in { f \in [Raffles -> SUBSET Universe] :
                            \A r \in Raffles : f[r] \in {{}, UniverseOf(r)} }
    /\ one_address_one_vote = [r \in Raffles |-> FALSE]
    /\ finalized = [r \in Raffles |-> FALSE]
    /\ results_table = [r \in Raffles |-> FALSE]
    /\ entries = <<>>
    /\ blocks = <<>>
    /\ chain = <<12>>
    /\ NoCalls

MultiSpec == MultiInit /\ [][FairNext]_vars

\* ------------------------------------------------ the splitter alone
\* poap_ids of the pools handed to _split_by_gas_limit; the code does not
\* require them to differ
SplitPoapIds == {0, 1, 2, 5, 10, 11, 21, 31, 110}

\* gas limits handed to _split_by_gas_limit
SplitKeys == 0..11

\* the pools of 1..MaxParticipants participants, ascending by poap_id
SplitPools ==
    UNION { { [i \in 1..n |-> [pk |-> i, address |-> "A", poap_id |-> ids[i]]] :
                ids \in { f \in [1..n -> SplitPoapIds] :
                            \A i \in 1..(n - 1) : f[i] <= f[i + 1] } } :
            n \in 1..MaxParticipants }

\* a call that has reached line 136 with the pool and the block candidate
SplitInit ==
    \E pool \in SplitPools, gas_limit \in SplitKeys :
        /\ raffle = [p \in Callers |-> 1]
        /\ participants = [r \in Raffles |-> IF r = 1 THEN Range(pool) ELSE {}]
        /\ one_address_one_vote = [r \in Raffles |-> FALSE]
        /\ finalized = [r \in Raffles |-> FALSE]
        /\ results_table = [r \in Raffles |-> r = 1]
        /\ entries = <<>>
        /\ blocks = <<>>
        /\ chain = <<gas_limit>>
        /\ pc = [p \in Callers |-> IF p = 1 THEN "save" ELSE "idle"]
        /\ prev_block = [p \in Callers |-> <<>>]
        /\ block_data = [p \in Callers |->
                           IF p = 1
                           THEN <<[raffle |-> 1, gas_limit |-> gas_limit,
                                   block_number |-> 1, order |-> 0]>>
                           ELSE <<>>]
        /\ remaining_participants = [p \in Callers |-> IF p = 1 THEN pool ELSE <<>>]
        /\ eliminated_participants = [p \in Callers |-> <<>>]
        /\ result = [p \in Callers |-> "none"]

SplitNext == \E p \in Callers : Split(p)

SplitSpec == SplitInit /\ [][SplitNext]_vars

\* =============================================================== claims
\* In Spec, FairSpec, SplitSpec and ConcSpec every call is made for raffle
\* 1 and all rows of the store belong to it: the properties of one raffle
\* are stated for raffle 1.
\* the participants that take part in the ranking: all of them, or with
\* one_address_one_vote the one of lowest poap_id of each address
Contenders ==
    IF one_address_one_vote[1]
    THEN { x \in participants[1] :
             \A y \in participants[1] : y.address = x.address => x.poap_id <= y.poap_id }
    ELSE participants[1]

EntryOrders == { entries[i].order : i \in 1..Len(entries) }
EntriesOf(pk) == { i \in 1..Len(entries) : entries[i].participant = pk }

\* C1: once the raffle is finalized the table holds exactly N entries, one
\* for each of the N contenders, and their orders are exactly 0..N-1.
FinalizedIsFullRanking ==
    finalized[1] =>
        /\ Len(entries) = Cardinality(Contenders)
        /\ \A x \in Contenders : Cardinality(EntriesOf(x.pk)) = 1
        /\ EntryOrders = 0..(Cardinality(Contenders) - 1)

FinalizedThreeRanked ==
    /\ finalized[1]
    /\ Cardinality(Contenders) = 3
    /\ Len(entries) = 3
    /\ Len(blocks) = 3

\* C2: a call on a non-finalized raffle whose oracle request found no
\* block writes nothing to the store and returns false.
NoNewBlockIsNoOp ==
    [][ \A p \in Callers :
          (pc[p] \in {"get_or_create", "remaining", "save"} /\ block_data[p] = <<>>)
            => /\ store' = store
               /\ (pc'[p] = "done" => result'[p] = "false") ]_vars

\* C3: the tables change only by a whole round: every step that changes
\* the entries or the BlockData rows appends the caller's BlockData
\* candidate and one entry for each participant it eliminated, and a
\* commit that fails changes neither.
RoundIsAllOrNothing ==
    [][ /\ (entries' # entries \/ blocks' # blocks) =>
             \E p \in Callers :
               /\ pc[p] = "commit" /\ pc'[p] = "finalize"
               /\ blocks' = Append(blocks, block_data[p][1])
               /\ Len(entries') = Len(entries) + Len(eliminated_participants[p])
               /\ SubSeq(entries', 1, Len(entries)) = entries
               /\ \A i \in 1..Len(eliminated_participants[p]) :
                    entries'[Len(entries) + i].participant
                      = eliminated_participants[p][i].pk
        /\ \A p \in Callers :
             (pc[p] = "commit" /\ pc'[p] # "finalize")
               => (entries' = entries /\ blocks' = blocks) ]_vars

FailedCommitAfterRound ==
    \E p \in Callers :
        /\ pc[p] = "done" /\ result[p] = "DatabaseError"
        /\ eliminated_participants[p] # <<>>
        /\ blocks # <<>> /\ entries # <<>>

\* C4: whenever the splitter returns for a pool of more than one
\* participant the eliminated subgroup is neither empty nor the whole
\* pool; for a pool of one it is that participant.
SplitIsNonTrivial ==
    \A p \in Callers :
        pc[p] = "commit" =>
            /\ Len(remaining_participants[p]) > 1 =>
                 /\ eliminated_participants[p] # <<>>
                 /\ eliminated_participants[p] # remaining_participants[p]
            /\ Len(remaining_participants[p]) = 1 =>
                 eliminated_participants[p] = remaining_participants[p]

NoDuplicateOrders ==
    \A i, j \in 1..Len(entries) : entries[i].order = entries[j].order => i = j

\* C5 as stated: in every store state the entries' orders are pairwise
\* distinct and are exactly 0 .. entries_count-1.
OrdersDenseFromZero ==
    /\ NoDuplicateOrders
    /\ EntryOrders = 0..(Len(entries) - 1)

\* C5 amended: in every store state (calls serialized) the entries' orders
\* are pairwise distinct and are exactly N-entries_count .. N-1, N being
\* the number of contenders.
OrdersDenseFromTop ==
    /\ NoDuplicateOrders
    /\ EntryOrders = (Cardinality(Contenders) - Len(entries))
                       ..(Cardinality(Contenders) - 1)

OneOfThreeRanked ==
    /\ ~finalized[1]
    /\ Cardinality(Contenders) = 3
    /\ Len(entries) = 1
    /\ \A p \in Callers : pc[p] = "idle"

\* C6: entries are write-once: a committed entry stays, with its order, in
\* every later state, and no participant ever has two entries.
EntriesAreWriteOnce ==
    [][ /\ Len(entries') >= Len(entries)
        /\ \A i \in 1..Len(entries) : entries'[i] = entries[i]
        /\ \A i, j \in 1..Len(entries') :
             entries'[i].participant = entries'[j].participant => i = j ]_vars

SecondRoundCommitted ==
    \E p \in Callers :
        /\ pc[p] = "finalize"
        /\ prev_block[p] # <<>>
        /\ eliminated_participants[p] # <<>>
        /\ Len(entries) > Len(eliminated_participants[p])

\* C7: once finalized, the raffle stays finalized, no step writes to the
\* store or asks the oracle, and every call that ends returns true.
FinalizedIsTerminal ==
    [][ finalized[1] =>
          /\ finalized'[1]
          /\ store' = store
          /\ \A p \in Callers :
               /\ ~(pc[p] = "get_block_data" /\ pc'[p] # "get_block_data")
               /\ pc[p] = "idle" /\ pc'[p] # "idle"
                    => /\ pc'[p] = "done"
                       /\ result'[p] = "true"
                       /\ block_data'[p] = <<>> ]_vars

CallOnFinalizedRaffle ==
    \E p \in Callers :
        /\ finalized[1]
        /\ pc[p] = "done" /\ result[p] = "true"
        /\ prev_block[p] = <<>> /\ block_data[p] = <<>>
        /\ entries # <<>>

\* the last block the bounded chain can hold has been consumed
ChainUsedUp == \E i \in 1..Len(blocks) : blocks[i].block_number = MaxChain

\* C8: with serialized calls that are repeated for ever and an oracle that
\* supplies every next block, the raffle is eventually finalized (as long
\* as the bounded chain has a next block to supply).
EventuallyFinalized == <>(finalized[1] \/ ChainUsedUp)

\* C9: the resolver writes nothing and returns, in ascending poap_id
\* order, exactly the contenders that have no entry; the example of the
\* one-address-one-vote rule gives [(A,2), (B,9)] and a raffle without
\* participants gives the empty list.
ResolverReturnsUnranked ==
    [][ \A p \in Callers :
          (pc[p] = "remaining" /\ pc'[p] = "save") =>
            LET pool == remaining_participants'[p]
            IN  /\ store' = store
                /\ \A i \in 1..(Len(pool) - 1) : pool[i].poap_id < pool[i + 1].poap_id
                /\ { pool[i] : i \in 1..Len(pool) }
                     = { x \in Contenders : EntriesOf(x.pk) = {} }
                /\ participants[1] = {} => pool = <<>>
                /\ ( /\ one_address_one_vote[1]
                     /\ entries = <<>>
                     /\ participants[1] = { [pk |-> 1, address |-> "A", poap_id |-> 5],
                                         [pk |-> 2, address |-> "A", poap_id |-> 2],
                                         [pk |-> 3, address |-> "B", poap_id |-> 9] } )
                   => pool = << [pk |-> 2, address |-> "A", poap_id |-> 2],
                                [pk |-> 3, address |-> "B", poap_id |-> 9] >> ]_vars

ExamplePoolResolved ==
    \E p \in Callers :
        /\ pc[p] = "save"
        /\ one_address_one_vote[1]
        /\ { x.poap_id : x \in participants[1] } = {5, 2, 9}
        /\ Len(remaining_participants[p]) = 2
        /\ remaining_participants[p][1].poap_id = 2
        /\ remaining_participants[p][2].poap_id = 9

BlocksInSequence(rows) ==
    \A i \in 1..Len(rows) :
        /\ rows[i].order = i - 1
        /\ i > 1 => rows[i].block_number = rows[i - 1].block_number + 1

\* C10: the BlockData rows have orders 0 .. M-1 in sequence and
\* consecutive, increasing block numbers; the first candidate is the
\* oracle's latest block with order 0; committed rows never change.
BlockDataIsASequence ==
    [][ /\ Len(blocks') >= Len(blocks)
        /\ \A i \in 1..Len(blocks) : blocks'[i] = blocks[i]
        /\ BlocksInSequence(blocks')
        /\ \A p \in Callers :
             (pc[p] = "get_block_data" /\ pc'[p] = "get_or_create" /\ blocks = <<>>)
               => block_data'[p] = <<[raffle       |-> raffle[p],
                                      gas_limit    |-> chain[Len(chain)],
                                      block_number |-> Len(chain),
                                      order        |-> 0]>> ]_vars

RoundsFromLatestBlock ==
    /\ Len(blocks) = 2
    /\ blocks[1].block_number = 2
    /\ blocks[2].block_number = 3

\* the digit significances up to the cap of the largest poap_id in use
Significances == {1, 10, 100, 1000}

DigitsDiffer(pool, m) ==
    \E i, j \in 1..Len(pool) :
        CmpDigit(pool[i].poap_id, m) # CmpDigit(pool[j].poap_id, m)

\* C11: on a pool that no digit significance divides (equal poap_ids) the
\* splitter stops (with NoValidSplit) instead of iterating for ever.
SplitterStopsOnUniformPool ==
    \A p \in Callers :
        ( /\ Len(remaining_participants[p]) > 1
          /\ \A m \in Significances : ~DigitsDiffer(remaining_participants[p], m) )
          => pc[p] # "looping"

\* the reference algorithm: the first significance whose digits are not all
\* equal, and the participants whose digit there is the key's last digit
FirstDifferingSignificance(pool) ==
    CHOOSE m \in Significances :
        /\ DigitsDiffer(pool, m)
        /\ \A k \in Significances : k < m => ~DigitsDiffer(pool, k)

MatchesAt(gas_limit, pool, m) ==
    LET Match(participant) == CmpDigit(participant.poap_id, m) = gas_limit % 10
    IN  SelectSeq(pool, Match)

\* C14: for a pool of more than one participant the splitter returns the
\* matches at the first significance whose digits are not all equal.
SplitMatchesReference ==
    \A p \in Callers :
        (pc[p] = "commit" /\ Len(remaining_participants[p]) > 1)
          => eliminated_participants[p]
               = MatchesAt(block_data[p][1].gas_limit, remaining_participants[p],
                           FirstDifferingSignificance(remaining_participants[p]))

\* C15: for a pool of two or more pairwise-distinct poap_ids the loop of
\* the splitter terminates.
DistinctPoolSplitTerminates ==
    \A p \in Callers :
        ( /\ Len(remaining_participants[p]) > 1
          /\ \A i, j \in 1..Len(remaining_participants[p]) :
               i # j => remaining_participants[p][i].poap_id
                          # remaining_participants[p][j].poap_id )
          => pc[p] # "looping"

\* C16: a committed round with pool P and eliminated subgroup E creates
\* exactly the entries of E, in pool order, with orders |P|-|E| .. |P|-1,
\* and the call returns true and sets finalized exactly when |E| = |P|.
RoundCommitsEliminated ==
    [][ \A p \in Callers :
          LET P == remaining_participants[p]
              E == eliminated_participants[p]
          IN  /\ (pc[p] = "commit" /\ pc'[p] = "finalize") =>
                   /\ Len(entries') = Len(entries) + Len(E)
                   /\ SubSeq(entries', 1, Len(entries)) = entries
                   /\ \A i \in 1..Len(E) :
                        entries'[Len(entries) + i]
                          = [results_table |-> raffle[p],
                             participant |-> E[i].pk,
                             order |-> Len(P) - Len(E) + i - 1]
                   /\ \A i \in 1..(Len(E) - 1) : E[i].poap_id < E[i + 1].poap_id
              /\ (pc[p] = "finalize" /\ pc'[p] = "done") =>
                   /\ result'[p] = (IF Len(E) = Len(P) THEN "true" ELSE "false")
                   /\ finalized'[1] = (Len(E) = Len(P)) ]_vars

TwoOfThreeCommitted ==
    \E p \in Callers :
        /\ pc[p] = "finalize"
        /\ Len(remaining_participants[p]) = 3
        /\ Len(eliminated_participants[p]) = 2

\* C17: a call on a non-finalized raffle whose remaining pool is empty
\* sets finalized, returns true and leaves the entries and the BlockData
\* rows as they are, with or without a new block.
EmptyPoolOnlyFinalizes ==
    [][ \A p \in Callers :
          ( /\ pc[p] = "save" /\ remaining_participants[p] = <<>>
            /\ pc'[p] \notin {"save", "idle"} )
            => /\ pc'[p] = "done" /\ result'[p] = "true"
               /\ ~finalized[1] /\ finalized'[1]
               /\ entries' = entries /\ blocks' = blocks ]_vars

FinalizedWithoutNewBlock ==
    \E p \in Callers :
        /\ finalized[1]
        /\ pc[p] = "done" /\ result[p] = "true"
        /\ prev_block[p] # <<>> /\ block_data[p] = <<>>
        /\ remaining_participants[p] = <<>>
        /\ entries # <<>>

\* C18: every step that commits a BlockData row commits at least one
\* entry with it.
BlockDataComesWithEntries ==
    [][ blocks' # blocks => Len(entries') > Len(entries) ]_vars

\* number of contenders that have no entry yet
RemainingCount ==
    Cardinality({ x \in Contenders : EntriesOf(x.pk) = {} })

\* C19: the committed orders are exactly R .. N-1 (R contenders remaining
\* out of N); each round's orders are below all orders committed before,
\* and order 0 is committed only by the round that empties the pool.
OrdersFillFromTheTop ==
    [][ /\ { entries'[i].order : i \in 1..Len(entries') }
             = RemainingCount'..(Cardinality(Contenders) - 1)
        /\ \A i \in 1..Len(entries), j \in (Len(entries) + 1)..Len(entries') :
             entries'[j].order < entries[i].order
        /\ \A p \in Callers :
             ( /\ pc[p] = "commit" /\ pc'[p] = "finalize"
               /\ \E j \in (Len(entries) + 1)..Len(entries') : entries'[j].order = 0 )
               => Len(eliminated_participants[p]) = Len(remaining_participants[p]) ]_vars

TwoRoundsOneRemaining ==
    /\ ~finalized[1]
    /\ Len(entries) = 2
    /\ entries[1].order = 2
    /\ entries[2].order = 1
    /\ RemainingCount = 1

\* C12: when two calls for the same raffle have both read the same last
\* BlockData row and the same remaining pool before either commits, the
\* commit of the second leaves two BlockData rows with the same order and
\* block_number, and every participant of the round has two entries, which
\* share one order value.
InterleavedCallsDuplicateRound ==
    [][ \A p, q \in Callers :
          ( /\ p # q
            /\ raffle[p] = raffle[q]
            /\ pc[p] = "commit" /\ pc'[p] = "finalize"
            /\ pc[q] \in {"finalize", "done"}
            /\ remaining_participants[q] # <<>>
            /\ block_data[q] # <<>>
            /\ prev_block[q] = prev_block[p]
            /\ block_data[q] = block_data[p]
            /\ remaining_participants[q] = remaining_participants[p] )
            => /\ \E i, j \in 1..Len(blocks') :
                    /\ i < j
                    /\ blocks'[i].raffle = blocks'[j].raffle
                    /\ blocks'[i].order = blocks'[j].order
                    /\ blocks'[i].block_number = blocks'[j].block_number
               /\ \A k \in 1..Len(eliminated_participants[p]) :
                    \E i, j \in 1..Len(entries') :
                        /\ i < j
                        /\ entries'[i].participant = eliminated_participants[p][k].pk
                        /\ entries'[j].participant = eliminated_participants[p][k].pk
                        /\ entries'[i].order = entries'[j].order ]_vars

DuplicateRound ==
    /\ \E i, j \in 1..Len(blocks) :
         /\ i < j
         /\ blocks[i].order = blocks[j].order
         /\ blocks[i].block_number = blocks[j].block_number
    /\ \E i, j \in 1..Len(entries) :
         /\ i < j
         /\ entries[i].participant = entries[j].participant
         /\ entries[i].order = entries[j].order
    /\ \A p \in Callers : pc[p] = "done"

\* the rows of raffle r: its Raffle row, its Participant rows, its
\* ResultsTable row and its ResultsTableEntry and BlockData rows in
\* insertion order
RowsOfRaffle(r) ==
    LET OfTable(entry) == entry.results_table = r
        OfRaffle(block) == block.raffle = r
    IN  [participants         |-> participants[r],
         one_address_one_vote |-> one_address_one_vote[r],
         finalized            |-> finalized[r],
         results_table        |-> results_table[r],
         entries              |-> SelectSeq(entries, OfTable),
         blocks               |-> SelectSeq(blocks, OfRaffle)]

\* the tables after `rounds` calls made for raffle r alone, one after the
\* other, the first of them on block `first`
RECURSIVE RoundsAlone(_, _, _)
RoundsAlone(r, first, rounds) ==
    IF rounds = 0
    THEN [entries |-> <<>>, blocks |-> <<>>]
    ELSE LET before == RoundsAlone(r, first, rounds - 1)
             number == first + rounds - 1
             pool == GetRemainingParticipants(participants[r],
                                              one_address_one_vote[r],
                                              Range(before.entries))
             eliminated == SplitByGasLimit(chain[number], pool).value
         IN  AtomicCommit(before,
                          NewEntries(r, eliminated, StartingOrder(pool, eliminated)),
                          [raffle |-> r, gas_limit |-> chain[number],
                           block_number |-> number, order |-> rounds - 1],
                          TRUE)

\* raffle r is in the state its calls alone, one after the other, lead to
AsRunAlone(r) ==
    LET rows == RowsOfRaffle(r)
        rounds == Len(rows.blocks)
        alone == RoundsAlone(r, IF rounds = 0 THEN 0 ELSE rows.blocks[1].block_number,
                             rounds)
        pool == GetRemainingParticipants(participants[r], one_address_one_vote[r],
                                         Range(alone.entries))
    IN  /\ rows.entries = alone.entries
        /\ rows.blocks = alone.blocks
        /\ finalized[r] => pool = <<>>
        /\ ( /\ rounds > 0
             /\ pool = <<>>
             /\ \A p \in Callers : raffle[p] = r => pc[p] # "finalize" )
           => finalized[r]

\* C13: a step of a call for raffle A leaves every row of every other
\* raffle unchanged, and however the calls for different raffles
\* interleave each raffle is in the state its own calls, run one after the
\* other, lead to.
RafflesAreIndependent ==
    /\ [](\A r \in Raffles : AsRunAlone(r))
    /\ [][ \A p \in Callers :
             pc'[p] # pc[p] =>
                 \A r \in Raffles \ {raffle[p]} :
                     RowsOfRaffle(r)' = RowsOfRaffle(r) ]_vars

BothRafflesMidRound ==
    \E p, q \in Callers :
        /\ raffle[p] # raffle[q]
        /\ pc[p] = "finalize" /\ pc[q] = "finalize"
        /\ prev_block[p] # <<>> /\ prev_block[q] # <<>>
        /\ eliminated_participants[p] # <<>>
        /\ eliminated_participants[q] # <<>>

====
